---- MODULE Spec2Model ----
(***************************************************************************)
(* Model of misconfig-configschemavalidator (src/main.py): a command-line  *)
(* driver that resolves the type of a config file and of a schema file,    *)
(* loads both (JSON or safe YAML) and validates the config against the     *)
(* schema with jsonschema, mapping every outcome to an exit code.          *)
(*                                                                         *)
(* Paths are sequences of one-character strings, so that os.path.splitext  *)
(* and str.lower are computed rather than assumed.                         *)
(***************************************************************************)
EXTENDS Integers, Sequences, FiniteSets, TLC

VARIABLES run, run2, env, q

vars == <<run, run2, env, q>>

(***************************************************************************)
(* Bounds of the model.                                                    *)
(***************************************************************************)
\* longest run of leading dots of a generated file name
MaxDots == 2
\* longest run of ordinary characters of a generated file name
MaxStem == 1

(***************************************************************************)
(* Strings.                                                                *)
(***************************************************************************)
None == "None"

UpperChars == <<"A", "J", "L", "M", "N", "O", "S", "Y">>
LowerChars == <<"a", "j", "l", "m", "n", "o", "s", "y">>

\* str.lower on one character
LowerChar(c) ==
    IF \E i \in 1..Len(UpperChars) : UpperChars[i] = c
    THEN LowerChars[CHOOSE i \in 1..Len(UpperChars) : UpperChars[i] = c]
    ELSE c

\* a case-sensitive comparison: what the code would do without .lower()
LowerIdentity(s) == s

\* str.lower
Lower(s) == [i \in 1..Len(s) |-> LowerChar(s[i])]

\* str.rfind for a one-character needle, 1-based; 0 when absent (Python: -1)
RFind(p, ch) ==
    IF \E i \in 1..Len(p) : p[i] = ch
    THEN CHOOSE i \in 1..Len(p) : p[i] = ch /\ \A j \in (i+1)..Len(p) : p[j] # ch
    ELSE 0

\* os.path.splitext(p)[1] on POSIX: the text from the last dot of the last
\* component, provided some character other than a dot precedes it there
SplitExt(p) ==
    LET sepIndex == RFind(p, "/")
        dotIndex == RFind(p, ".")
    IN  IF /\ dotIndex > sepIndex
           /\ \E k \in (sepIndex+1)..(dotIndex-1) : p[k] # "."
        THEN SubSeq(p, dotIndex, Len(p))
        ELSE <<>>

ExtJson == <<".", "j", "s", "o", "n">>
ExtYaml == <<".", "y", "a", "m", "l">>
ExtYml  == <<".", "y", "m", "l">>

(***************************************************************************)
(* determine_file_type: [ok, type] on return, [ok = FALSE, exc, path,      *)
(* suggests] when it raises ValueError.                                    *)
(***************************************************************************)
Returned(t) == [ok |-> TRUE, type |-> t, exc |-> None, path |-> <<>>, suggests |-> {}]

RaisedValueError(p) ==
    [ok |-> FALSE, type |-> None, exc |-> "ValueError", path |-> p,
     suggests |-> {"--config_type", "--schema_type"}]

\* the inference from the extension alone
InferFromExtension(file_path) ==
    LET ext == Lower(SplitExt(file_path))
    IN  IF ext \in {ExtJson} THEN Returned("json")
        ELSE IF ext \in {ExtYaml, ExtYml} THEN Returned("yaml")
        ELSE RaisedValueError(file_path)

\* a resolver that lets a recognised extension win over the declared type
ExtensionFirst(file_path, arg_type) ==
    LET r == InferFromExtension(file_path)
    IN  IF r.ok THEN r
        ELSE IF arg_type # None /\ arg_type # "" THEN Returned(arg_type)
        ELSE r

\* Python truthiness of an optional string
Truthy(x) == x # None /\ x # ""

determine_file_type(file_path, arg_type) ==
    IF Truthy(arg_type)
    THEN Returned(arg_type)
    ELSE InferFromExtension(file_path)

(***************************************************************************)
(* The file system the run meets.  A path is missing, unreadable (it       *)
(* exists but open() raises an OSError other than FileNotFoundError, e.g.  *)
(* PermissionError or IsADirectoryError), or holds one of the texts below. *)
(***************************************************************************)
Contents ==
    { "empty",      \* zero bytes
      "j_a1",       \* {"a": 1}
      "j_ax",       \* {"a": "x"}
      "j_any",      \* {}
      "j_req",      \* {"type": "object", "required": ["a"]}
      "j_aint",     \* {"type": "object", "properties": {"a": {"type": "integer"}}}
      "j_bad",      \* {"type": 5}, not a valid schema
      "j_trunc",    \* {"a":       (unterminated flow mapping)
      "y_a1",       \* a: 1        (block YAML, not JSON)
      "y_scan",     \* a: "x       (unterminated quoted scalar)
      "y_parse",    \* a: [1, 2    (bad structure)
      "y_alias",    \* a: *nope    (undefined alias)
      "y_tag",      \* !!python/object/apply:os.system ["id"]
      "binary" }    \* bytes that are not valid text in the locale's encoding

FileStates == {"missing", "unreadable"} \cup Contents

Unknown == "unknown"

(***************************************************************************)
(* DocumentTrees, named by their content.  T_pyobj is a value of an        *)
(* arbitrary constructed type: no safe loader returns it.                  *)
(***************************************************************************)
PlainTrees == {"T_null", "T_any", "T_a1", "T_ax", "T_req", "T_aint", "T_bad"}
Trees == PlainTrees \cup {"T_pyobj"}

Value(t)  == [ok |-> TRUE,  val |-> t,    exc |-> None, constructed |-> (t = "T_pyobj")]
Raises(e) == [ok |-> FALSE, val |-> None, exc |-> e,    constructed |-> FALSE]

\* the tree a JSON text denotes
JsonTreeOf(c) ==
    CASE c = "j_a1"   -> "T_a1"
      [] c = "j_ax"   -> "T_ax"
      [] c = "j_any"  -> "T_any"
      [] c = "j_req"  -> "T_req"
      [] c = "j_aint" -> "T_aint"
      [] c = "j_bad"  -> "T_bad"

WellFormedJson == {"j_a1", "j_ax", "j_any", "j_req", "j_aint", "j_bad"}

\* a loader that takes an empty file for null
JsonLoadEmptyNull(c) ==
    IF c = "binary" THEN Raises("UnicodeDecodeError")
    ELSE IF c = "empty" THEN Value("T_null")
    ELSE IF c \in WellFormedJson THEN Value(JsonTreeOf(c))
    ELSE Raises("JSONDecodeError")

\* json.load(f): the read raises UnicodeDecodeError (a ValueError, not a
\* JSONDecodeError) on undecodable bytes; anything that is not strict JSON,
\* the empty text included, raises JSONDecodeError
JsonLoad(c) ==
    IF c = "binary" THEN Raises("UnicodeDecodeError")
    ELSE IF c \in WellFormedJson THEN Value(JsonTreeOf(c))
    ELSE Raises("JSONDecodeError")

\* a loader that constructs tagged types
YamlTypUnsafe == "unsafe"

\* the loader type the program asks ruamel.yaml for
YamlTyp == "safe"

\* YAML(typ=...).load(f): flow-style JSON is YAML; an empty stream loads as
\* None; the safe constructor refuses a tag it has no constructor for
YamlLoad(c, typ) ==
    CASE c = "binary"        -> Raises("UnicodeDecodeError")
      [] c = "empty"         -> Value("T_null")
      [] c \in WellFormedJson -> Value(JsonTreeOf(c))
      [] c = "y_a1"          -> Value("T_a1")
      [] c = "j_trunc"       -> Raises("ParserError")
      [] c = "y_parse"       -> Raises("ParserError")
      [] c = "y_scan"        -> Raises("ScannerError")
      [] c = "y_alias"       -> Raises("ComposerError")
      [] c = "y_tag"         -> IF typ = "safe" THEN Raises("ConstructorError")
                                ELSE Value("T_pyobj")

(***************************************************************************)
(* jsonschema.validate on the trees above.                                 *)
(***************************************************************************)
IsObject(t) == t \in {"T_any", "T_a1", "T_ax", "T_req", "T_aint", "T_bad"}
HasKeyA(t) == t \in {"T_a1", "T_ax"}
AIsInteger(t) == t = "T_a1"

\* "ok", or the name of the exception validate() raises
JsonSchemaValidate(instance, schema) ==
    CASE schema = "T_null"  -> "TypeError"     \* "$schema" not in None
      [] schema = "T_pyobj" -> "TypeError"
      [] schema = "T_bad"   -> "SchemaError"   \* check_schema fails
      [] schema = "T_req"   ->
            IF IsObject(instance) /\ HasKeyA(instance) THEN "ok" ELSE "ValidationError"
      [] schema = "T_aint"  ->
            IF IsObject(instance) /\ (HasKeyA(instance) => AIsInteger(instance))
            THEN "ok" ELSE "ValidationError"
      [] OTHER -> "ok"                          \* no keyword of the schema constrains

(***************************************************************************)
(* Exception classes (Python's and the libraries' hierarchy).              *)
(***************************************************************************)
Exceptions ==
    {"FileNotFoundError", "PermissionError", "JSONDecodeError", "UnicodeDecodeError",
     "ParserError", "ScannerError", "ComposerError", "ConstructorError",
     "ValidationError", "SchemaError", "TypeError", "ValueError"}

\* isinstance(e, cls) for the classes the except clauses name
IsInstance(e, cls) ==
    \/ e = cls
    \/ cls = "BaseException"
    \/ cls = "Exception" /\ e \in Exceptions
    \/ cls = "ValueError" /\ e \in {"JSONDecodeError", "UnicodeDecodeError"}
    \/ cls = "OSError" /\ e \in {"FileNotFoundError", "PermissionError"}

(***************************************************************************)
(* Logging.  A record is emitted when its level is at least the level of   *)
(* the root logger, which main() sets from --log_level.                    *)
(***************************************************************************)
Levels == {"DEBUG", "INFO", "WARNING", "ERROR", "CRITICAL"}

LevelNo(l) ==
    CASE l = "DEBUG"    -> 10
      [] l = "INFO"     -> 20
      [] l = "WARNING"  -> 30
      [] l = "ERROR"    -> 40
      [] l = "CRITICAL" -> 50

\* r.calls: the records handed to the logger; r.out: those it emitted
Log(r, level, text, path) ==
    LET rec == [level |-> level, text |-> text, path |-> path]
        c   == [r EXCEPT !.calls = Append(@, rec)]
    IN  IF LevelNo(level) >= LevelNo(r.args.log_level)
        THEN [c EXCEPT !.out = Append(@, rec)]
        ELSE c

(***************************************************************************)
(* The state of one run of main().                                         *)
(***************************************************************************)
TypeChoices == {"json", "yaml"}

NoArgs ==
    [config_file |-> <<>>, schema_file |-> <<>>, config_type |-> None,
     schema_type |-> None, log_level |-> "INFO"]

NewRun(argv) ==
    [pc |-> "ParseArgs", argv |-> argv, args |-> NoArgs,
     config_type |-> None, schema_type |-> None,
     config_data |-> None, schema_data |-> None,
     handles |-> {}, opened |-> <<>>, calls |-> <<>>, out |-> <<>>, trace |-> <<>>,
     terminal |-> "Running", exit |-> -1, kind |-> None, exc |-> None,
     constructed |-> FALSE]

Took(r, step) == [r EXCEPT !.trace = Append(@, step)]

\* the process ends
Exit(r, code, terminal, kind) ==
    [r EXCEPT !.pc = "Done", !.exit = code, !.terminal = terminal, !.kind = kind]

\* an except clause that also catches SystemExit
CatchAllBare == "BaseException"

\* the class the last except clause of main() names
CatchAll == "Exception"

\* sys.exit(code) inside the try block of main(): SystemExit is not an
\* Exception, so no except clause of main() stops it
SysExit(r, code, terminal, kind) ==
    IF IsInstance("SystemExit", CatchAll)
    THEN Exit(Log(r, "ERROR", "unexpected", <<>>), 1, "Failure", "UnexpectedError")
    ELSE Exit(r, code, terminal, kind)

\* a catch-all that lets the exception escape when debugging
MainExceptDebugReraise(r, e) ==
    IF r.args.log_level = "DEBUG" /\ ~ IsInstance(e, "FileNotFoundError")
       /\ e \notin {"JSONDecodeError", "ParserError", "ScannerError", "ValidationError"}
    THEN Exit([r EXCEPT !.exc = e], 1, "Crash", "Traceback")
    ELSE IF IsInstance(e, "FileNotFoundError")
    THEN Exit([r EXCEPT !.exc = e], 1, "Failure", "NotFound")
    ELSE IF e \in {"JSONDecodeError", "ParserError", "ScannerError"}
    THEN Exit([r EXCEPT !.exc = e], 1, "Failure", "ParseError")
    ELSE IF IsInstance(e, "ValidationError")
    THEN Exit([r EXCEPT !.exc = e], 1, "Failure", "SchemaViolation")
    ELSE Exit(Log([r EXCEPT !.exc = e], "ERROR", "unexpected", <<>>),
              1, "Failure", "UnexpectedError")

\* the except clauses of main()'s outer try, for an exception e raised in it
MainExcept(r, e) ==
    IF IsInstance(e, "FileNotFoundError")
    THEN Exit([r EXCEPT !.exc = e], 1, "Failure", "NotFound")
    ELSE IF e \in {"JSONDecodeError", "ParserError", "ScannerError"}
    THEN Exit([r EXCEPT !.exc = e], 1, "Failure", "ParseError")
    ELSE IF IsInstance(e, "ValidationError")
    THEN Exit([r EXCEPT !.exc = e], 1, "Failure", "SchemaViolation")
    ELSE IF IsInstance(e, CatchAll)
    THEN Exit(Log([r EXCEPT !.exc = e], "ERROR", "unexpected", <<>>),
              1, "Failure", "UnexpectedError")
    ELSE Exit([r EXCEPT !.exc = e], 1, "Crash", "Traceback")

(***************************************************************************)
(* parser.parse_args() and setLevel.  argparse exits by itself: 0 after    *)
(* printing the help (-h is taken to come first on the command line), 2    *)
(* after a usage error (a positional missing, a value outside choices).    *)
(***************************************************************************)
ArgparseAccepts(argv) ==
    /\ Len(argv.positionals) = 2
    /\ argv.config_type \in TypeChoices \cup {None}
    /\ argv.schema_type \in TypeChoices \cup {None}
    /\ argv.log_level \in Levels \cup {None}

Namespace(argv) ==
    [config_file |-> argv.positionals[1], schema_file |-> argv.positionals[2],
     config_type |-> argv.config_type, schema_type |-> argv.schema_type,
     log_level |-> IF argv.log_level = None THEN "INFO" ELSE argv.log_level]

ParseArgsStep(r) ==
    LET t == Took(r, "ParseArgs")
    IN  IF r.argv.help THEN Exit(t, 0, "Usage", "Help")
        ELSE IF ~ ArgparseAccepts(r.argv) THEN Exit(t, 2, "Usage", "UsageError")
        ELSE [t EXCEPT !.pc = "ResolveConfigType", !.args = Namespace(r.argv)]

(***************************************************************************)
(* Type resolution (main, lines 140-150).                                  *)
(***************************************************************************)
FileOf(r, role) == IF role = "config" THEN r.args.config_file ELSE r.args.schema_file
DeclaredOf(r, role) == IF role = "config" THEN r.args.config_type ELSE r.args.schema_type
TypeOf(r, role) == IF role = "config" THEN r.config_type ELSE r.schema_type

ResolveName(role) == IF role = "config" THEN "ResolveConfigType" ELSE "ResolveSchemaType"
OpenName(role) == IF role = "config" THEN "OpenConfig" ELSE "OpenSchema"
ReadName(role) == IF role = "config" THEN "ReadConfig" ELSE "ReadSchema"

AfterResolve(role) == IF role = "config" THEN "ResolveSchemaType" ELSE "OpenConfig"
AfterRead(role) == IF role = "config" THEN "OpenSchema" ELSE "Validate"

SetType(r, role, t) ==
    IF role = "config" THEN [r EXCEPT !.config_type = t] ELSE [r EXCEPT !.schema_type = t]

SetData(r, role, d) ==
    IF role = "config" THEN [r EXCEPT !.config_data = d] ELSE [r EXCEPT !.schema_data = d]

\* a resolution that logs the ValueError and carries on
ResolveStepNoExit(r, role) ==
    LET t   == Took(r, ResolveName(role))
        res == determine_file_type(FileOf(r, role), DeclaredOf(r, role))
    IN  IF res.ok
        THEN [SetType(t, role, res.type) EXCEPT !.pc = AfterResolve(role)]
        ELSE [Log([t EXCEPT !.exc = res.exc], "ERROR", "could_not_determine", res.path)
                EXCEPT !.pc = AfterResolve(role)]

ResolveStep(r, role) ==
    LET t   == Took(r, ResolveName(role))
        res == determine_file_type(FileOf(r, role), DeclaredOf(r, role))
    IN  IF res.ok
        THEN [SetType(t, role, res.type) EXCEPT !.pc = AfterResolve(role)]
        ELSE SysExit(Log([t EXCEPT !.exc = res.exc], "ERROR", "could_not_determine", res.path),
                     1, "Failure", "UnknownFileType")

(***************************************************************************)
(* load_json / load_yaml, in two steps: open(file_path, 'r'), then the     *)
(* body of the with block, whose exit closes the file.                     *)
(***************************************************************************)
\* except clauses that re-raise without a log line
LoaderExceptSilent(r, type, e, path) == r

\* the except clauses of the loader: log, then re-raise
LoaderExcept(r, type, e, path) ==
    IF IsInstance(e, "FileNotFoundError")
    THEN Log(r, "ERROR", "file_not_found", path)
    ELSE IF type = "json" /\ IsInstance(e, "JSONDecodeError")
    THEN Log(r, "ERROR", "invalid_json", path)
    ELSE IF type = "yaml" /\ (IsInstance(e, "ParserError") \/ IsInstance(e, "ScannerError"))
    THEN Log(r, "ERROR", "invalid_yaml", path)
    ELSE r

\* what open() raises on a file in state st, or None
OpenRaises(st) ==
    CASE st = "missing"    -> "FileNotFoundError"
      [] st = "unreadable" -> "PermissionError"
      [] OTHER             -> None

OpenStep(r, role, st) ==
    LET t    == Took(r, OpenName(role))
        type == TypeOf(r, role)
        path == FileOf(r, role)
    IN  IF type \notin {"json", "yaml"}
        THEN SysExit(Log(r, "ERROR", "invalid_file_type", <<>>), 1, "Failure", "InvalidType")
        ELSE IF OpenRaises(st) # None
        THEN MainExcept(LoaderExcept(t, type, OpenRaises(st), path), OpenRaises(st))
        ELSE [t EXCEPT !.pc = ReadName(role),
                       !.handles = @ \cup {role},
                       !.opened = Append(@, role)]

Parse(type, st) == IF type = "json" THEN JsonLoad(st) ELSE YamlLoad(st, YamlTyp)

\* the body of the with block; the file is closed on the way out when
\* closeOnError, and always on a normal return
ReadBody(r, role, st, closeOnError) ==
    LET t    == Took(r, ReadName(role))
        type == TypeOf(r, role)
        path == FileOf(r, role)
        res  == Parse(type, st)
        shut == [t EXCEPT !.handles = @ \ {role}]
        c    == [shut EXCEPT !.constructed = @ \/ res.constructed]
    IN  IF res.ok
        THEN [SetData(c, role, res.val) EXCEPT !.pc = AfterRead(role)]
        ELSE MainExcept(LoaderExcept(IF closeOnError THEN shut ELSE t, type, res.exc, path),
                        res.exc)

\* f = open(...); data = load(f); f.close(): no close when the load raises
ReadStepNoWith(r, role, st) == ReadBody(r, role, st, FALSE)

ReadStep(r, role, st) == ReadBody(r, role, st, TRUE)

(***************************************************************************)
(* validate_config and the end of main (lines 170-172).                    *)
(***************************************************************************)
ValidateStep(r) ==
    LET t   == Took(r, "Validate")
        res == JsonSchemaValidate(r.config_data, r.schema_data)
    IN  IF res = "ok"
        THEN SysExit(Log(Log(t, "INFO", "config_valid", <<>>),
                         "INFO", "validation_successful", <<>>),
                     0, "Success", None)
        ELSE IF IsInstance(res, "ValidationError")
        THEN MainExcept(Log(t, "ERROR", "config_invalid", <<>>), res)
        ELSE MainExcept(t, res)

(***************************************************************************)
(* One step of main() from the position r.pc, meeting a file in state st.  *)
(***************************************************************************)
RoleAt(pc) == IF pc \in {"ResolveConfigType", "OpenConfig", "ReadConfig"} THEN "config" ELSE "schema"

MainStep(r, st) ==
    CASE r.pc = "ParseArgs" -> ParseArgsStep(r)
      [] r.pc \in {"ResolveConfigType", "ResolveSchemaType"} -> ResolveStep(r, RoleAt(r.pc))
      [] r.pc \in {"OpenConfig", "OpenSchema"} -> OpenStep(r, RoleAt(r.pc), st)
      [] r.pc \in {"ReadConfig", "ReadSchema"} -> ReadStep(r, RoleAt(r.pc), st)
      [] r.pc = "Validate" -> ValidateStep(r)

\* the file the step at r.pc touches, if any
Touches(r) == r.pc \in {"OpenConfig", "OpenSchema", "ReadConfig", "ReadSchema"}

\* the file system shows the same file to every open of one path
Meets(r, st) ==
    IF Touches(r) THEN env[FileOf(r, RoleAt(r.pc))] \in {Unknown, st} ELSE st = "missing"

EnvAfter(r, st) ==
    IF Touches(r) THEN [env EXCEPT ![FileOf(r, RoleAt(r.pc))] = st] ELSE env

(***************************************************************************)
(* Inputs.                                                                 *)
(***************************************************************************)
P_c_json == <<"c", ".", "j", "s", "o", "n">>
P_s_YML  == <<"s", ".", "Y", "M", "L">>
P_c_txt  == <<"c", ".", "t", "x", "t">>

MainPaths == {P_c_json, P_s_YML, P_c_txt}

Argvs ==
    [help : BOOLEAN,
     positionals : {<<a, b>> : a \in MainPaths, b \in MainPaths} \cup {<<P_c_json>>},
     config_type : TypeChoices \cup {None, "xml"},
     schema_type : TypeChoices \cup {None, "xml"},
     log_level : Levels \cup {None, "TRACE"}]

IdleRun == [NewRun(CHOOSE a \in Argvs : TRUE) EXCEPT !.pc = "Idle"]
IdleQ == [pc |-> "idle", path |-> <<>>, arg_type |-> None, result |-> Returned(None)]
NoEnv == [p \in MainPaths |-> Unknown]

Init ==
    /\ run \in {NewRun(a) : a \in Argvs}
    /\ run2 = IdleRun
    /\ env = NoEnv
    /\ q = IdleQ

(***************************************************************************)
(* The steps of main() as actions.                                         *)
(***************************************************************************)
ParseArgs ==
    /\ run.pc = "ParseArgs"
    /\ run' = ParseArgsStep(run)
    /\ UNCHANGED <<run2, env, q>>

ResolveConfigType ==
    /\ run.pc = "ResolveConfigType"
    /\ run' = ResolveStep(run, "config")
    /\ UNCHANGED <<run2, env, q>>

ResolveSchemaType ==
    /\ run.pc = "ResolveSchemaType"
    /\ run' = ResolveStep(run, "schema")
    /\ UNCHANGED <<run2, env, q>>

OpenConfig ==
    /\ run.pc = "OpenConfig"
    /\ \E st \in FileStates :
         /\ Meets(run, st)
         /\ run' = OpenStep(run, "config", st)
         /\ env' = EnvAfter(run, st)
    /\ UNCHANGED <<run2, q>>

ReadConfig ==
    /\ run.pc = "ReadConfig"
    /\ run' = ReadStep(run, "config", env[run.args.config_file])
    /\ UNCHANGED <<run2, env, q>>

OpenSchema ==
    /\ run.pc = "OpenSchema"
    /\ \E st \in FileStates :
         /\ Meets(run, st)
         /\ run' = OpenStep(run, "schema", st)
         /\ env' = EnvAfter(run, st)
    /\ UNCHANGED <<run2, q>>

ReadSchema ==
    /\ run.pc = "ReadSchema"
    /\ run' = ReadStep(run, "schema", env[run.args.schema_file])
    /\ UNCHANGED <<run2, env, q>>

Validate ==
    /\ run.pc = "Validate"
    /\ run' = ValidateStep(run)
    /\ UNCHANGED <<run2, env, q>>

Next ==
    \/ ParseArgs
    \/ ResolveConfigType
    \/ ResolveSchemaType
    \/ OpenConfig
    \/ ReadConfig
    \/ OpenSchema
    \/ ReadSchema
    \/ Validate

Spec == Init /\ [][Next]_vars

(***************************************************************************)
(* The type resolver on its own: determine_file_type applied to generated  *)
(* paths  dir + dots + stem + ext + tail.  Each ext carries what it means  *)
(* when it ends a file name: the type its last suffix names (final), and   *)
(* whether a non-dot character precedes its last dot inside ext (inner).   *)
(***************************************************************************)
Rep(ch, n) == [i \in 1..n |-> ch]

Dirs == {<<>>, <<"d", "/">>, <<"d", ".", "j", "s", "o", "n", "/">>, <<"/">>}

Tails == {<<>>, <<"/", "x">>}

Exts ==
    { [text |-> <<>>, final |-> "none", inner |-> FALSE],
      [text |-> <<".", "j", "s", "o", "n">>, final |-> "json", inner |-> FALSE],
      [text |-> <<".", "J", "S", "O", "N">>, final |-> "json", inner |-> FALSE],
      [text |-> <<".", "J", "s", "o", "n">>, final |-> "json", inner |-> FALSE],
      [text |-> <<".", "y", "a", "m", "l">>, final |-> "yaml", inner |-> FALSE],
      [text |-> <<".", "Y", "A", "M", "L">>, final |-> "yaml", inner |-> FALSE],
      [text |-> <<".", "y", "m", "l">>, final |-> "yaml", inner |-> FALSE],
      [text |-> <<".", "y", "M", "l">>, final |-> "yaml", inner |-> FALSE],
      [text |-> <<".", "t", "x", "t">>, final |-> "none", inner |-> FALSE],
      [text |-> <<".">>, final |-> "none", inner |-> FALSE],
      [text |-> <<".", "j", "s", "o">>, final |-> "none", inner |-> FALSE],
      [text |-> <<".", "j", "s", "o", "n", "x">>, final |-> "none", inner |-> FALSE],
      [text |-> <<".", "j", "s", "o", "n", ".", "b", "a", "k">>, final |-> "none", inner |-> TRUE],
      [text |-> <<".", "y", "a", "m", "l", ".", "j", "s", "o", "n">>, final |-> "json", inner |-> TRUE],
      [text |-> <<".", "j", "s", "o", "n", ".">>, final |-> "none", inner |-> TRUE] }

PathOf(d, k, n, e, t) == d \o Rep(".", k) \o Rep("a", n) \o e.text \o t

Queries ==
    { [pc |-> "call", dir |-> d, dots |-> k, stem |-> n, ext |-> e, tail |-> t,
       path |-> PathOf(d, k, n, e, t), arg_type |-> a, result |-> Returned(None)] :
         d \in Dirs, k \in 0..MaxDots, n \in 0..MaxStem, e \in Exts, t \in Tails,
         a \in TypeChoices \cup {None} }

InitResolve ==
    /\ q \in Queries
    /\ run = IdleRun
    /\ run2 = IdleRun
    /\ env = NoEnv

Resolve ==
    /\ q.pc = "call"
    /\ q' = [q EXCEPT !.pc = "returned",
                      !.result = determine_file_type(q.path, q.arg_type)]
    /\ UNCHANGED <<run, run2, env>>

NextResolve == Resolve

SpecResolve == InitResolve /\ [][NextResolve]_vars

(***************************************************************************)
(* Two runs of main() on the same files with the same type flags and       *)
(* different --log_level: the second starts when the first has ended and   *)
(* meets the file system the first one met.                                *)
(***************************************************************************)
PairArgvs == {a \in Argvs : ~ a.help /\ ArgparseAccepts(a) /\ a.log_level # None}

InitPair ==
    /\ \E a \in PairArgvs : \E l \in Levels :
         /\ LevelNo(a.log_level) < LevelNo(l)
         /\ run = NewRun(a)
         /\ run2 = NewRun([a EXCEPT !.log_level = l])
    /\ env = NoEnv
    /\ q = IdleQ

First ==
    /\ run.pc # "Done"
    /\ Next

Second ==
    /\ run.pc = "Done"
    /\ run2.pc # "Done"
    /\ \E st \in FileStates :
         /\ Meets(run2, st)
         /\ run2' = MainStep(run2, st)
         /\ env' = EnvAfter(run2, st)
    /\ UNCHANGED <<run, q>>

NextPair == First \/ Second

SpecPair == InitPair /\ [][NextPair]_vars

(***************************************************************************)
(* Vocabulary of the properties.                                           *)
(***************************************************************************)
Order ==
    <<"ParseArgs", "ResolveConfigType", "ResolveSchemaType", "OpenConfig",
      "ReadConfig", "OpenSchema", "ReadSchema", "Validate">>

IsPrefix(s, t) == Len(s) <= Len(t) /\ SubSeq(t, 1, Len(s)) = s

InTrace(r, step) == \E i \in 1..Len(r.trace) : r.trace[i] = step

LastStep(r) == IF r.trace = <<>> THEN None ELSE r.trace[Len(r.trace)]

Roles == {"config", "schema"}

DataOf(r, role) == IF role = "config" THEN r.config_data ELSE r.schema_data

\* the command line was accepted by argparse and did not ask for the help
Accepted(r) == ~ r.argv.help /\ ArgparseAccepts(r.argv)

\* both types resolved, both documents loaded, the validator accepted
AllSucceeded(r) ==
    /\ r.config_type \in TypeChoices /\ r.schema_type \in TypeChoices
    /\ InTrace(r, "ReadConfig") /\ r.config_data \in Trees
    /\ InTrace(r, "ReadSchema") /\ r.schema_data \in Trees
    /\ InTrace(r, "Validate")
    /\ JsonSchemaValidate(r.config_data, r.schema_data) = "ok"

\* the step did what it is for
Succeeded(r, step) ==
    CASE step = "ParseArgs"         -> Accepted(r)
      [] step = "ResolveConfigType" -> r.config_type \in TypeChoices
      [] step = "ResolveSchemaType" -> r.schema_type \in TypeChoices
      [] step = "OpenConfig"        -> \E i \in 1..Len(r.opened) : r.opened[i] = "config"
      [] step = "ReadConfig"        -> r.config_data \in Trees
      [] step = "OpenSchema"        -> \E i \in 1..Len(r.opened) : r.opened[i] = "schema"
      [] step = "ReadSchema"        -> r.schema_data \in Trees
      [] step = "Validate"          -> JsonSchemaValidate(r.config_data, r.schema_data) = "ok"

ErrorLine(r, text) == \E i \in 1..Len(r.out) : r.out[i].level = "ERROR" /\ r.out[i].text = text
ErrorCall(r, text) == \E i \in 1..Len(r.calls) : r.calls[i].level = "ERROR" /\ r.calls[i].text = text

\* the log texts that report an error of the given kind
TextsOf(kind) ==
    CASE kind = "NotFound"        -> {"file_not_found"}
      [] kind = "ParseError"      -> {"invalid_json", "invalid_yaml"}
      [] kind = "UnknownFileType" -> {"could_not_determine"}
      [] kind = "SchemaViolation" -> {"config_invalid"}
      [] kind = "UnexpectedError" -> {"unexpected"}
      [] OTHER                    -> {}

\* the loader of the role was entered on a file in state st
Opening(r, role, st) ==
    /\ InTrace(r, OpenName(role))
    /\ TypeOf(r, role) \in TypeChoices
    /\ env[FileOf(r, role)] = st

\* the loader of the role, of the given type, read the text st
Reading(r, role, type, st) ==
    /\ InTrace(r, ReadName(role))
    /\ TypeOf(r, role) = type
    /\ env[FileOf(r, role)] = st

MalformedFor(type) ==
    IF type = "json" THEN {"j_trunc", "y_a1", "y_scan", "y_parse", "y_alias", "y_tag"}
    ELSE {"j_trunc", "y_scan", "y_parse"}

(***************************************************************************)
(* C1                                                                      *)
(***************************************************************************)
\* C1 as stated: every run of main() that has ended exited with 0 exactly
\* when both types were resolved, both documents loaded and the validator
\* accepted, and with 1 otherwise.
C1_AsStated ==
    run.pc = "Done" =>
        /\ run.exit = 0 <=> AllSucceeded(run)
        /\ ~ AllSucceeded(run) => run.exit = 1

\* C1 (amended): every run whose command line argparse accepts exits with 0
\* exactly when both types were resolved, both documents loaded and the
\* validator accepted, and with 1 otherwise; argparse itself ends the run
\* with 0 for -h and with 2 for a command line it rejects, before any step.
C1_ExitCode ==
    run.pc = "Done" =>
        /\ Accepted(run) =>
              /\ run.exit = 0 <=> AllSucceeded(run)
              /\ ~ AllSucceeded(run) => run.exit = 1
              /\ run.exit = 0 <=> run.terminal = "Success"
        /\ run.argv.help => run.exit = 0 /\ run.trace = <<"ParseArgs">>
        /\ (~ run.argv.help /\ ~ ArgparseAccepts(run.argv)) =>
              run.exit = 2 /\ run.trace = <<"ParseArgs">>

C1_Witness ==
    /\ run.pc = "Done" /\ Accepted(run) /\ run.exit = 0
    /\ run.config_data = "T_a1" /\ run.schema_data = "T_req"

(***************************************************************************)
(* C2                                                                      *)
(***************************************************************************)
\* C2: the steps run in the fixed order, each at most once; a step that
\* fails is the last one and the run is then in Failure; nothing follows
\* the end of the run; no file is opened when a resolution failed, the
\* schema is not opened when the config did not load, and validation runs
\* only on two loaded documents.
C2_Order ==
    /\ IsPrefix(run.trace, Order)
    /\ \A i \in 2..Len(run.trace) :
          ~ Succeeded(run, run.trace[i]) =>
              i = Len(run.trace) /\ run.pc = "Done" /\ run.terminal = "Failure"
    /\ run.terminal = "Failure" => ~ Succeeded(run, LastStep(run))
    /\ run.pc = "Done" => ~ ENABLED Next
    /\ run.kind = "UnknownFileType" => run.opened = <<>>
    /\ run.config_data \notin Trees => ~ InTrace(run, "OpenSchema")
    /\ InTrace(run, "Validate") => run.config_data \in Trees /\ run.schema_data \in Trees

C2_Witness ==
    /\ run.terminal = "Failure"
    /\ run.trace = SubSeq(Order, 1, 5)
    /\ run.opened = <<"config">>

(***************************************************************************)
(* C3                                                                      *)
(***************************************************************************)
\* C3: a YAML document with a custom type tag is never loaded as that
\* type: once load_yaml has read it, the run is in Failure with exit 1 or
\* holds a plain tree for it, and no run ever constructed a tagged type.
C3_SafeLoad ==
    /\ ~ run.constructed
    /\ run.config_data \in PlainTrees \cup {None}
    /\ run.schema_data \in PlainTrees \cup {None}
    /\ \A role \in Roles :
          Reading(run, role, "yaml", "y_tag") =>
              \/ run.terminal = "Failure" /\ run.exit = 1 /\ LastStep(run) = ReadName(role)
              \/ DataOf(run, role) \in PlainTrees

C3_Witness ==
    /\ Reading(run, "schema", "yaml", "y_tag")
    /\ run.terminal = "Failure" /\ run.exit = 1
    /\ run.config_data = "T_a1"

(***************************************************************************)
(* C4                                                                      *)
(***************************************************************************)
\* C4: with a declared type, determine_file_type returns it, whatever the
\* path's extension is.
C4_Override ==
    (q.pc = "returned" /\ q.arg_type \in TypeChoices) =>
        q.result.ok /\ q.result.type = q.arg_type

C4_Witness ==
    /\ q.pc = "returned" /\ q.arg_type = "json"
    /\ q.ext.final = "yaml" /\ q.stem > 0 /\ q.tail = <<>>
    /\ q.result.type = "json"

(***************************************************************************)
(* C5                                                                      *)
(***************************************************************************)
\* the type the file name's extension names: the last suffix of the last
\* component, when a character other than a dot precedes it there
Named(x) ==
    IF x.tail = <<>> /\ (x.stem > 0 \/ x.ext.inner) THEN x.ext.final ELSE "none"

\* C5: with no declared type, .json gives json and .yaml/.yml give yaml in
\* any letter case; every other extension, and no extension, raises the
\* error that carries the path and suggests the override flags.
C5_Inference ==
    (q.pc = "returned" /\ q.arg_type = None) =>
        IF Named(q) \in TypeChoices
        THEN q.result.ok /\ q.result.type = Named(q)
        ELSE /\ ~ q.result.ok
             /\ q.result.exc = "ValueError"
             /\ q.result.path = q.path
             /\ q.result.suggests = {"--config_type", "--schema_type"}

C5_Witness ==
    /\ q.pc = "returned" /\ q.arg_type = None
    /\ q.ext.text = <<".", "J", "S", "O", "N">> /\ q.stem > 0 /\ q.tail = <<>>
    /\ q.result.type = "json"

(***************************************************************************)
(* C6                                                                      *)
(***************************************************************************)
\* C6 as stated: every run that ends in Failure has emitted an ERROR line
\* for its error before the exit.
C6_AsStated ==
    run.terminal = "Failure" =>
        \E t \in TextsOf(run.kind) : ErrorLine(run, t)

\* C6 (amended): every run that ends in Failure exits with 1 after a call
\* of logging.error for its error, and the line is emitted whenever
\* --log_level is not CRITICAL; under CRITICAL nothing is emitted.  No step
\* is taken twice.
C6_Logged ==
    /\ run.terminal = "Failure" =>
          /\ run.exit = 1
          /\ run.kind \in {"NotFound", "ParseError", "UnknownFileType",
                           "SchemaViolation", "UnexpectedError"}
          /\ \E t \in TextsOf(run.kind) : ErrorCall(run, t)
          /\ run.args.log_level # "CRITICAL" => \E t \in TextsOf(run.kind) : ErrorLine(run, t)
          /\ run.args.log_level = "CRITICAL" => run.out = <<>>
    /\ \A i, j \in 1..Len(run.trace) : run.trace[i] = run.trace[j] => i = j

C6_Witness ==
    /\ run.terminal = "Failure" /\ run.kind = "NotFound"
    /\ run.args.log_level = "ERROR"
    /\ ErrorLine(run, "file_not_found")

(***************************************************************************)
(* C7                                                                      *)
(***************************************************************************)
\* C7: a load of a file that cannot be opened (missing or unreadable) ends
\* in NotFound, a load of a malformed text ends in ParseError of the
\* loader's format, and neither is reported as UnexpectedError.
C7_AsStated ==
    \A role \in Roles :
        /\ (Opening(run, role, "missing") \/ Opening(run, role, "unreadable")) =>
              run.terminal = "Failure" /\ run.kind = "NotFound"
        /\ \A type \in TypeChoices : \A st \in MalformedFor(type) :
              Reading(run, role, type, st) =>
                  /\ run.terminal = "Failure" /\ run.kind = "ParseError"
                  /\ run.exc \in (IF type = "json" THEN {"JSONDecodeError"}
                                  ELSE {"ParserError", "ScannerError"})

(***************************************************************************)
(* C8                                                                      *)
(***************************************************************************)
\* C8 as stated: each loader, on an empty file, produces null or an empty
\* document and the run does not crash.
C8_AsStated ==
    \A role \in Roles : \A type \in TypeChoices :
        Reading(run, role, type, "empty") =>
            DataOf(run, role) \in PlainTrees /\ run.terminal # "Crash"

\* C8 (amended): an empty file never crashes the run, as config or as
\* schema: load_yaml returns null for it, and load_json rejects it with a
\* JSON parse error that is logged and ends the run with exit 1.
C8_Empty ==
    \A role \in Roles :
        /\ Reading(run, role, "yaml", "empty") =>
              DataOf(run, role) = "T_null" /\ run.terminal # "Crash"
        /\ Reading(run, role, "json", "empty") =>
              /\ DataOf(run, role) = None
              /\ run.terminal = "Failure" /\ run.kind = "ParseError"
              /\ run.exc = "JSONDecodeError" /\ run.exit = 1
              /\ ErrorCall(run, "invalid_json")
              /\ LastStep(run) = ReadName(role)

C8_Witness ==
    /\ Reading(run, "config", "yaml", "empty") /\ run.config_data = "T_null"
    /\ Reading(run, "schema", "json", "empty") /\ run.terminal = "Failure"

(***************************************************************************)
(* C9                                                                      *)
(***************************************************************************)
\* C9: two runs that differ only in --log_level take the same steps and
\* end in the same terminal state, with the same error kind and exit code.
C9_LogLevelOnly ==
    /\ run.argv.log_level # run2.argv.log_level
    /\ [run.argv EXCEPT !.log_level = None] = [run2.argv EXCEPT !.log_level = None]
    /\ run.pc = "Done" => IsPrefix(run2.trace, run.trace)
    /\ (run.pc = "Done" /\ run2.pc = "Done") =>
          /\ run.trace = run2.trace
          /\ run.terminal = run2.terminal
          /\ run.kind = run2.kind
          /\ run.exit = run2.exit

C9_Witness ==
    /\ run.pc = "Done" /\ run2.pc = "Done"
    /\ run.terminal = "Failure" /\ run.kind = "UnexpectedError"
    /\ run.args.log_level = "DEBUG" /\ run2.args.log_level = "CRITICAL"
    /\ run.out # <<>> /\ run2.out = <<>>

(***************************************************************************)
(* C10                                                                     *)
(***************************************************************************)
\* C10: at most one file is open at any time; the config file is closed
\* before the schema is opened and before validation; no file is open when
\* the run has ended, after a parse error as after a normal load.
C10_Handles ==
    /\ Cardinality(run.handles) <= 1
    /\ run.pc \in {"OpenSchema", "ReadSchema", "Validate"} => "config" \notin run.handles
    /\ run.pc \in {"Validate", "Done"} => run.handles = {}
    /\ run.pc = "ReadConfig" <=> run.handles = {"config"}
    /\ run.pc = "ReadSchema" <=> run.handles = {"schema"}

C10_Witness ==
    /\ run.pc = "Done" /\ run.kind = "ParseError"
    /\ run.opened = <<"config", "schema">>
    /\ run.handles = {}

====
